---- MODULE Spec2Model ----
(***************************************************************************)
(* Model of the Sphere projection/tiling engine and of the viewer's        *)
(* manifest loader.                                                        *)
(*                                                                         *)
(*   backend/tools.py  : checkPairs, writeYAML, Projection, RunProjection  *)
(*   widgets/tab.py    : Tab.loadYAML                                      *)
(*                                                                         *)
(* Angles are whole degrees.  The numbers stored in a manifest are fixed   *)
(* point values with FP units per degree (or per grid index), so that the  *)
(* float() of the writer and the int() of the reader are real conversions. *)
(***************************************************************************)
EXTENDS Integers, Sequences, FiniteSets, TLC

(***************************************************************************)
(* Bounds of the model                                                     *)
(***************************************************************************)
MaxThreads == 3
MaxLongLen == 3
MaxLatLen == 2
MaxIndex == 4
MaxTabId == 5
MaxCpu == 3

(***************************************************************************)
(* Program constants                                                       *)
(***************************************************************************)
LatMin == -90
LatMax == 90
LonBandMin == -360
LonBandMax == 720
DefLongStart == -180
DefLongStop == 180
DefLatStart == -90
DefLatStop == 90

(***************************************************************************)
(* Input sets                                                              *)
(***************************************************************************)
\* steps: 180 gives the default grid [-180, 0] x [-90, 90], 200 the default
\* grid [-180, 20] x [-90, 110] whose last latitude overshoots +90
Steps == {180, 200}

\* steps a run should refuse: zero and negative
BadSteps == {0, -200}

\* output sizes: the default of the signature and a caller's choice
DefaultSize == <<720, 720>>
Sizes == {DefaultSize, <<8, 8>>}

\* axes a caller passes as allLong / allLat: 0, 10, 20, ...
CustomAxis(n) == [i \in 1..n |-> (i - 1) * 10]
CustomLongs == {CustomAxis(n) : n \in 1..MaxLongLen}
CustomLats == {CustomAxis(n) : n \in 1..MaxLatLen}

\* shape of the source raster: 2-D, one channel, three channels
DataShapes == {<<2, 4>>, <<2, 4, 1>>, <<2, 4, 3>>}

(***************************************************************************)
(* Helpers: numpy                                                          *)
(***************************************************************************)
CeilDiv(n, d) == -((-n) \div d)

\* np.arange(start, stop, step) for step # 0: the values start + i * step
\* before stop
Arange(start, stop, step) ==
    LET n == IF step > 0 /\ stop > start THEN CeilDiv(stop - start, step)
             ELSE IF step < 0 /\ stop < start
                  THEN CeilDiv(start - stop, -step)
             ELSE 0
    IN  [i \in 1..n |-> start + (i - 1) * step]

\* array_split whose sections all start at a multiple of total // sections
ArraySplitBad(total, sections) ==
    LET each   == total \div sections
        extras == total % sections
        size(s)  == IF s <= extras THEN each + 1 ELSE each
        start(s) == (s - 1) * each
    IN  [s \in 1..sections |-> [j \in 1..size(s) |-> start(s) + j - 1]]

\* np.array_split(np.indices((total,))[0], sections): sections sub-arrays of
\* the indices 0..total-1, the first total % sections of size
\* total // sections + 1 and the others of size total // sections
ArraySplit(total, sections) ==
    LET each   == total \div sections
        extras == total % sections
        size(s)  == IF s <= extras THEN each + 1 ELSE each
        start(s) == IF s <= extras THEN (s - 1) * (each + 1)
                    ELSE extras * (each + 1) + (s - 1 - extras) * each
    IN  [s \in 1..sections |-> [j \in 1..size(s) |-> start(s) + j - 1]]

Range(f) == {f[x] : x \in DOMAIN f}

(***************************************************************************)
(* Helpers: formatting                                                     *)
(***************************************************************************)
DigitChars == <<"0", "1", "2", "3", "4", "5", "6", "7", "8", "9">>

RECURSIVE FormatNat(_)
FormatNat(n) ==
    IF n < 10 THEN <<DigitChars[n + 1]>>
    ELSE FormatNat(n \div 10) \o <<DigitChars[(n % 10) + 1]>>

\* '%d' % n
FormatD(n) == IF n < 0 THEN <<"-">> \o FormatNat(-n) ELSE FormatNat(n)

\* a file name made of the latitude index only
TileNameBad(index, pos) == <<"out", "_">> \o FormatD(pos) \o <<".jpg">>

\* name + '_%d,%d' % (index, pos) + '.jpg', without the directory
TileName(index, pos) ==
    <<"out", "_">> \o FormatD(index) \o <<",">> \o FormatD(pos) \o <<".jpg">>

(***************************************************************************)
(* Manifest: a YAML mapping, modelled as a function from keys to values.   *)
(* Numbers are stored in fixed point, FP units per unit.                   *)
(***************************************************************************)
FP == 10

\* a whole number as a stored number
Fix(n) == n * FP

\* float(n): the value is kept
PyFloat(n) == Fix(n)

\* int(v) of a stored number: truncation toward zero
PyInt(v) == IF v >= 0 THEN v \div FP ELSE -((-v) \div FP)

DefaultUnit == "deg"

\* writeYAML(name, coordsInit, limLatitude, limLongitude, step, unit):
\* the mapping dumped into the file
writeYAML(coordsInit, limLatitude, limLongitude, step, unit) ==
    ("x0" :> PyFloat(coordsInit[1])) @@ ("y0" :> PyFloat(coordsInit[2])) @@
    ("step" :> Fix(step)) @@ ("unit" :> unit)

(***************************************************************************)
(* State                                                                   *)
(***************************************************************************)
VARIABLES
    args,            \* arguments RunProjection is constructed with
    pc,              \* controlling thread: new, ready, joining, done, error
    configErr,       \* error raised by RunProjection.__init__
    run,             \* attributes of the RunProjection object
    threads,         \* self.threads: the Projection workers, in start order
    joined,          \* number of workers join() has returned for
    manifest,        \* <<>> when the file is absent, else <<mapping>>
    manifestWrites,  \* writes of the manifest: <<writer, ...>>
    tiles,           \* tile files: file name |-> number of times written
    lateWrites,      \* tiles written after run() has returned
    cancels,         \* number of stop requests made
    cancelEarly,     \* a stop request was made while a tile was not started
    disk,            \* viewer: <<>> or <<mapping>>, the file a tab loads
    tab,             \* viewer: attributes of the Tab
    loadErr,         \* viewer: error raised by the last Tab.loadYAML
    calc,            \* the last call of a function of the engine: its
                     \* name, its arguments and what it returned
    nb,              \* main window: the notebook, self.tabs, the plot window
    cw               \* configuration window: the thread entry and buttons

genVars  == <<args, pc, configErr, run, threads, joined, manifest,
              manifestWrites, tiles, lateWrites, cancels, cancelEarly>>
viewVars == <<disk, tab, loadErr>>
calcVars == <<calc>>
uiVars   == <<nb, cw>>
vars     == <<args, pc, configErr, run, threads, joined, manifest,
              manifestWrites, tiles, lateWrites, cancels, cancelEarly,
              disk, tab, loadErr, calc, nb, cw>>

Opt(given, val) == [given |-> given, val |-> val]

\* numThreadsType and stepType are the Python types of the two arguments
AllArgs ==
    [numThreads     : 0..MaxThreads,
     numThreadsType : {"int", "float"},
     step           : Steps \cup BadSteps,
     stepType       : {"int", "str"},
     allLong    : {Opt(FALSE, <<>>)} \cup {Opt(TRUE, a) : a \in CustomLongs},
     allLat     : {Opt(FALSE, <<>>)} \cup {Opt(TRUE, a) : a \in CustomLats},
     initPos    : {Opt(FALSE, <<>>), Opt(TRUE, <<1, 0>>)},
     size       : Sizes,
     shape      : DataShapes]

\* a call with the plain arguments: integer numThreads, a step of Steps and
\* the default size
Plain(a) ==
    /\ a.numThreadsType = "int"
    /\ a.stepType = "int"
    /\ a.step \in Steps
    /\ a.size = DefaultSize

\* the runs explored: an initial position is given to single-worker runs,
\* rasters that are not single-channel go to at most two workers, and the
\* other arguments vary one at a time, on single-channel rasters whose axes
\* are both given or both left out
ArgSet ==
    {a \in AllArgs :
        /\ a.initPos.given => a.numThreads = 1
        /\ a.shape # <<2, 4, 1>> => a.numThreads <= 2
        /\ ~Plain(a) =>
              /\ a.shape = <<2, 4, 1>>
              /\ ~a.initPos.given
              /\ a.numThreads \in {1, 2}
              /\ a.allLong.given = a.allLat.given
              /\ Len(a.allLong.val) <= 2
              /\ \/ a.numThreadsType = "float" /\ a.stepType = "int"
                       /\ a.step = 180 /\ a.size = DefaultSize
                 \/ a.numThreadsType = "int" /\ a.stepType = "str"
                       /\ a.step = 180 /\ a.size = DefaultSize
                 \/ a.numThreadsType = "int" /\ a.stepType = "int"
                       /\ a.step \in BadSteps /\ a.size = DefaultSize
                 \/ a.numThreadsType = "int" /\ a.stepType = "int"
                       /\ a.step = 180 /\ a.size # DefaultSize}

NoRun == [numThreads |-> 0, step |-> 0, allLong |-> <<>>, allLat |-> <<>>,
          lenLong |-> 0, lenLat |-> 0, initPos |-> <<>>, long |-> <<>>]

EmptyDict == [k \in {} |-> 0]

\* no call made yet
NoCalc == [op |-> "none"]

\* a Tab before anything is loaded; src is the file the last load read,
\* eventErr the error the last drag or slider event ended with
NoTab == [loaded |-> FALSE, yaml |-> "", confParams |-> EmptyDict,
          longitude |-> <<>>, latitude |-> <<>>, lenLong |-> 0, lenLat |-> 0,
          src |-> <<>>, eventErr |-> "none"]

(***************************************************************************)
(* RunProjection.__init__                                                  *)
(***************************************************************************)
\* a default longitude axis that runs up to +180 included
AllLongOfBad(a) ==
    IF a.allLong.given THEN a.allLong.val
    ELSE Arange(DefLongStart, DefLongStop + a.step, a.step)

\* self.allLong: the caller's array, or np.arange(-180, 180, step)
AllLongOf(a) ==
    IF a.allLong.given THEN a.allLong.val
    ELSE Arange(DefLongStart, DefLongStop, a.step)

\* self.allLat: the caller's array, or np.arange(-90, 90 + step, step)
AllLatOf(a) ==
    IF a.allLat.given THEN a.allLat.val
    ELSE Arange(DefLatStart, DefLatStop + a.step, a.step)

\* a default initial position at the first latitude
InitPosOfBad(a, lenLat) == IF a.initPos.given THEN a.initPos.val ELSE <<0, 0>>

\* self.initPos: the caller's pair, or [0, lenLat]
InitPosOf(a, lenLat) == IF a.initPos.given THEN a.initPos.val ELSE <<0, lenLat>>

\* a number of threads that is not clamped
ClampThreadsBad(numThreads, lenLong) == numThreads

\* self.numThreads: the requested number, at most lenLong + 1
ClampThreads(numThreads, lenLong) ==
    IF numThreads > lenLong + 1 THEN lenLong + 1 ELSE numThreads

\* self.long: the longitude indices of each worker
Shards(nLong, numThreads) == ArraySplit(nLong, numThreads)

\* the attributes __init__ sets
RunOf(a) ==
    LET allLong == AllLongOf(a)
        allLat  == AllLatOf(a)
        lenLong == Len(allLong) - 1
        lenLat  == Len(allLat) - 1
        n       == ClampThreads(a.numThreads, lenLong)
    IN  [numThreads |-> n, step |-> a.step,
         allLong |-> allLong, allLat |-> allLat,
         lenLong |-> lenLong, lenLat |-> lenLat,
         initPos |-> InitPosOf(a, lenLat),
         long    |-> Shards(Len(allLong), n)]

\* the mapping __init__ hands to writeYAML
ManifestOf(r) ==
    writeYAML(r.initPos, <<r.allLat[1], r.allLat[Len(r.allLat)]>>,
              <<r.allLong[1], r.allLong[Len(r.allLong)]>>, r.step, DefaultUnit)

\* the error __init__ raises, "none" when it returns: the type checks of
\* step and numThreads, numThreads < 1, np.arange with a zero step, and the
\* first and last element of an empty axis read for writeYAML
ConstructError(a) ==
    IF a.stepType \notin {"int", "float"} THEN "TypeError"
    ELSE IF a.numThreadsType # "int" THEN "TypeError"
    ELSE IF a.numThreads < 1 THEN "ValueError"
    ELSE IF (~a.allLong.given \/ ~a.allLat.given) /\ a.step = 0
         THEN "ZeroDivisionError"
    ELSE IF Len(AllLatOf(a)) = 0 \/ Len(AllLongOf(a)) = 0 THEN "IndexError"
    ELSE "none"

\* a constructor that leaves the manifest to be written later
ConstructBad ==
    /\ pc = "new"
    /\ IF ConstructError(args) # "none"
       THEN /\ pc' = "error"
            /\ configErr' = ConstructError(args)
            /\ UNCHANGED run
       ELSE /\ pc' = "ready"
            /\ run' = RunOf(args)
            /\ UNCHANGED configErr
    /\ UNCHANGED <<args, threads, joined, tiles, lateWrites, cancels,
                   cancelEarly, manifest, manifestWrites>>
    /\ UNCHANGED <<viewVars, calcVars, uiVars>>

Construct ==
    /\ pc = "new"
    /\ IF ConstructError(args) # "none"
       THEN /\ pc' = "error"
            /\ configErr' = ConstructError(args)
            /\ UNCHANGED <<run, manifest, manifestWrites>>
       ELSE /\ pc' = "ready"
            /\ run' = RunOf(args)
            /\ manifest' = <<ManifestOf(run')>>
            /\ manifestWrites' = Append(manifestWrites, "controller")
            /\ UNCHANGED configErr
    /\ UNCHANGED <<args, threads, joined, tiles, lateWrites, cancels,
                   cancelEarly>>
    /\ UNCHANGED <<viewVars, calcVars, uiVars>>

(***************************************************************************)
(* RunProjection.run                                                       *)
(***************************************************************************)
\* Projection.__init__, as run() calls it (data, axes, shard, directory and
\* name; size is left to its default): a worker that has not begun to run.  cut is history:
\* the tile in flight, and its channels done, when the flag was cleared
NewProjection(longIndices) ==
    [indices |-> longIndices, st |-> "begin", k |-> 1, pos |-> 0, ch |-> 0,
     ok |-> TRUE, size |-> DefaultSize, cut |-> <<>>,
     projData |-> <<>>, saved |-> <<>>]

\* one turn of the first loop: create worker i and start it
StartThread ==
    /\ pc = "ready"
    /\ Len(threads) < run.numThreads
    /\ threads' = Append(threads, NewProjection(run.long[Len(threads) + 1]))
    /\ pc' = IF Len(threads') = run.numThreads THEN "joining" ELSE "ready"
    /\ UNCHANGED <<args, configErr, run, joined, manifest, manifestWrites,
                   tiles, lateWrites, cancels, cancelEarly>>
    /\ UNCHANGED <<viewVars, calcVars, uiVars>>

\* a join that does not wait
TerminatedBad(t) == TRUE

\* Thread.join() returns for a thread whose run has ended
Terminated(t) == t.st \in {"done", "failed"}

\* one turn of the second loop: join() of worker i returns
JoinThread ==
    /\ pc = "joining"
    /\ joined < run.numThreads
    /\ Terminated(threads[joined + 1])
    /\ joined' = joined + 1
    /\ pc' = IF joined' = run.numThreads THEN "done" ELSE "joining"
    /\ UNCHANGED <<args, configErr, run, threads, manifest, manifestWrites,
                   tiles, lateWrites, cancels, cancelEarly>>
    /\ UNCHANGED <<viewVars, calcVars, uiVars>>

(***************************************************************************)
(* Basemap(lat_0, lon_0): the checks of the constructor                    *)
(***************************************************************************)
\* a check that refuses the upper limit itself
ValidatedLLBad(param, minval, maxval) == ~(param >= maxval \/ param < minval)

\* _validated_ll(param, name, minval, maxval) does not raise
ValidatedLL(param, minval, maxval) == ~(param > maxval \/ param < minval)

BasemapOk(lat0, lon0) ==
    /\ ValidatedLL(lat0, LatMin, LatMax)
    /\ ValidatedLL(lon0, LonBandMin, LonBandMax)

(***************************************************************************)
(* Projection.run                                                          *)
(***************************************************************************)
\* number of channels the worker loops over: np.shape(self.data)[2]
Channels(shape) == shape[3]

\* an inner loop that begins at the last latitude
EnterOuterBad(t, k) ==
    IF k > Len(t.indices) THEN [t EXCEPT !.st = "done"]
    ELSE IF Len(run.allLat) = 0 THEN [t EXCEPT !.st = "after", !.k = k]
    ELSE [t EXCEPT !.st = "check", !.k = k, !.pos = Len(run.allLat) - 1,
                   !.ch = 0]

\* the head of the outer loop with the k-th index of the shard, followed by
\* the head of the inner loop
EnterOuter(t, k) ==
    IF k > Len(t.indices) THEN [t EXCEPT !.st = "done"]
    ELSE IF Len(run.allLat) = 0 THEN [t EXCEPT !.st = "after", !.k = k]
    ELSE [t EXCEPT !.st = "check", !.k = k, !.pos = 0, !.ch = 0]

\* shp = np.shape(self.data)[2], then the first turn of the loops
Begin(i) ==
    /\ i \in 1..Len(threads)
    /\ threads[i].st = "begin"
    /\ threads' = [threads EXCEPT ![i] =
          IF Len(args.shape) < 3 THEN [@ EXCEPT !.st = "failed"]
          ELSE EnterOuter(@, 1)]
    /\ UNCHANGED <<args, pc, configErr, run, joined, manifest, manifestWrites,
                   tiles, lateWrites, cancels, cancelEarly>>
    /\ UNCHANGED <<viewVars, calcVars, uiVars>>

\* a worker that does not look at the flag
AfterCheckBad(t) ==
    IF ~BasemapOk(run.allLat[t.pos + 1], run.allLong[t.indices[t.k] + 1])
    THEN [t EXCEPT !.st = "failed"]
    ELSE IF Channels(args.shape) = 0 THEN [t EXCEPT !.st = "write"]
    ELSE [t EXCEPT !.st = "chan", !.ch = 0, !.projData = <<>>]

\* the worker's reaction to the flag at the top of the inner loop
AfterCheck(t) ==
    IF ~t.ok THEN [t EXCEPT !.st = "after"]
    ELSE IF ~BasemapOk(run.allLat[t.pos + 1], run.allLong[t.indices[t.k] + 1])
         THEN [t EXCEPT !.st = "failed"]
    ELSE IF Channels(args.shape) = 0 THEN [t EXCEPT !.st = "write"]
    ELSE [t EXCEPT !.st = "chan", !.ch = 0, !.projData = <<>>]

\* `if not self.ok: break`, then the Basemap of the tile
CheckFlag(i) ==
    /\ i \in 1..Len(threads)
    /\ threads[i].st = "check"
    /\ threads' = [threads EXCEPT ![i] = AfterCheck(@)]
    /\ UNCHANGED <<args, pc, configErr, run, joined, manifest, manifestWrites,
                   tiles, lateWrites, cancels, cancelEarly>>
    /\ UNCHANGED <<viewVars, calcVars, uiVars>>

\* the worker after one more channel is resampled
AfterChannel(t) ==
    IF t.ch + 1 >= Channels(args.shape)
    THEN [t EXCEPT !.st = "write", !.ch = t.ch + 1,
                   !.projData = Append(@, t.ch)]
    ELSE [t EXCEPT !.ch = t.ch + 1, !.projData = Append(@, t.ch)]

\* m.transform_scalar(self.data[:, :, i], ...) of one channel
Resample(i) ==
    /\ i \in 1..Len(threads)
    /\ threads[i].st = "chan"
    /\ threads' = [threads EXCEPT ![i] = AfterChannel(@)]
    /\ UNCHANGED <<args, pc, configErr, run, joined, manifest, manifestWrites,
                   tiles, lateWrites, cancels, cancelEarly>>
    /\ UNCHANGED <<viewVars, calcVars, uiVars>>

\* the file a write adds to the directory
WriteFile(fs, name) ==
    IF name \in DOMAIN fs THEN [fs EXCEPT ![name] = @ + 1]
    ELSE fs @@ (name :> 1)

\* an inner loop that stops one latitude short
AfterWriteBad(t) ==
    IF t.pos + 2 >= Len(run.allLat) THEN [t EXCEPT !.st = "after"]
    ELSE [t EXCEPT !.st = "check", !.pos = t.pos + 1, !.ch = 0]

\* the worker after plt.imsave: next turn of the inner loop
AfterWrite(t) ==
    IF t.pos + 1 >= Len(run.allLat) THEN [t EXCEPT !.st = "after"]
    ELSE [t EXCEPT !.st = "check", !.pos = t.pos + 1, !.ch = 0]

\* np.moveaxis(projData, 0, -1): the channels of the file, in list order
Saved(t) == [t EXCEPT !.saved = t.projData, !.projData = <<>>]

\* plt.imsave of the tile
WriteTile(i) ==
    /\ i \in 1..Len(threads)
    /\ threads[i].st = "write"
    /\ LET name == TileName(threads[i].indices[threads[i].k], threads[i].pos)
       IN  /\ tiles' = WriteFile(tiles, name)
           /\ lateWrites' = IF pc = "done" THEN lateWrites \cup {name}
                            ELSE lateWrites
    /\ threads' = [threads EXCEPT ![i] = Saved(AfterWrite(@))]
    /\ UNCHANGED <<args, pc, configErr, run, joined, manifest, manifestWrites,
                   cancels, cancelEarly>>
    /\ UNCHANGED <<viewVars, calcVars, uiVars>>

\* the worker's reaction to the flag after the inner loop
AfterOuterCheck(t) ==
    IF ~t.ok THEN [t EXCEPT !.st = "done"] ELSE EnterOuter(t, t.k + 1)

\* `if not self.ok: break` after the inner loop, then the next longitude
AfterInner(i) ==
    /\ i \in 1..Len(threads)
    /\ threads[i].st = "after"
    /\ threads' = [threads EXCEPT ![i] = AfterOuterCheck(@)]
    /\ UNCHANGED <<args, pc, configErr, run, joined, manifest, manifestWrites,
                   tiles, lateWrites, cancels, cancelEarly>>
    /\ UNCHANGED <<viewVars, calcVars, uiVars>>

\* resampling or writing the tile in flight raises: nothing catches it and
\* the thread ends
TileError(i) ==
    /\ i \in 1..Len(threads)
    /\ threads[i].st \in {"chan", "write"}
    /\ threads' = [threads EXCEPT ![i].st = "failed", ![i].ch = 0,
                                  ![i].projData = <<>>]
    /\ UNCHANGED <<args, pc, configErr, run, joined, manifest, manifestWrites,
                   tiles, lateWrites, cancels, cancelEarly>>
    /\ UNCHANGED <<viewVars, calcVars, uiVars>>

(***************************************************************************)
(* Stop request: the controlling thread clears the flag of a worker        *)
(***************************************************************************)
\* the worker will start another tile if nothing stops it
HasUnstarted(t) ==
    \/ t.st = "begin" /\ Len(args.shape) >= 3 /\ Len(t.indices) > 0
                      /\ Len(run.allLat) > 0
    \/ t.st = "check"
    \/ t.st \in {"chan", "write"}
          /\ (t.pos + 1 < Len(run.allLat) \/ t.k < Len(t.indices))
    \/ t.st = "after" /\ t.k < Len(t.indices) /\ Len(run.allLat) > 0

UnstartedTile ==
    \/ Len(threads) < run.numThreads
    \/ \E i \in 1..Len(threads) : HasUnstarted(threads[i])

\* self.ok = False
Stopped(t) ==
    [t EXCEPT !.ok = FALSE,
              !.cut = IF t.st \in {"chan", "write"}
                      THEN <<[name |-> TileName(t.indices[t.k], t.pos),
                              ch |-> t.ch]>>
                      ELSE <<>>]

Cancel(i) ==
    /\ pc \in {"ready", "joining"}
    /\ i \in 1..Len(threads)
    /\ threads[i].ok
    /\ threads' = [threads EXCEPT ![i] = Stopped(@)]
    /\ cancels' = cancels + 1
    /\ cancelEarly' = (cancelEarly \/ UnstartedTile)
    /\ UNCHANGED <<args, pc, configErr, run, joined, manifest, manifestWrites,
                   tiles, lateWrites>>
    /\ UNCHANGED <<viewVars, calcVars, uiVars>>

(***************************************************************************)
(* Main window and configuration window at construction                    *)
(***************************************************************************)
\* a notebook tab: its identifier, Tab.loaded and its ttk state
NewTab(id) == [id |-> id, loaded |-> FALSE, state |-> "normal"]

\* mainApplication.addTab: a Tab adds itself at the end of the notebook, it
\* is entered in self.tabs, and is disabled when it is not the only entry
AddTab(n) ==
    LET keys == n.keys \cup {n.nextId}
        tb   == [NewTab(n.nextId) EXCEPT
                    !.state = IF Cardinality(keys) > 1 THEN "disabled"
                                                       ELSE "normal"]
    IN  [n EXCEPT !.tabs = Append(@, tb), !.keys = keys,
                  !.nextId = @ + 1,
                  !.sel = IF n.tabs = <<>> THEN 1 ELSE @]

\* mainApplication.__init__: an empty notebook, no plot window, one tab
NewNotebook ==
    AddTab([tabs |-> <<>>, keys |-> {}, sel |-> 0, nextId |-> 1,
            plotWindow |-> FALSE, removed |-> {}, err |-> "none"])

\* main.cpuCount as the configuration window reads it: <<>> when the main
\* object has no such attribute
CpuCounts == {<<>>} \cup {<<n>> : n \in 1..MaxCpu}

\* ConfigWindow.__init__: '-' disabled, '+' enabled, the entry and its
\* buffer hold the default value 1
NewConfigWindow(cpu) ==
    [cpu |-> cpu, text |-> <<1>>, top |-> <<1>>, minState |-> "disabled",
     maxState |-> "normal", error |-> FALSE, err |-> "none"]

(***************************************************************************)
(* Specification of a generation run                                       *)
(***************************************************************************)
Init ==
    /\ args \in ArgSet
    /\ pc = "new"
    /\ configErr = "none"
    /\ run = NoRun
    /\ threads = <<>>
    /\ joined = 0
    /\ manifest = <<>>
    /\ manifestWrites = <<>>
    /\ tiles = EmptyDict
    /\ lateWrites = {}
    /\ cancels = 0
    /\ cancelEarly = FALSE
    /\ disk = <<>>
    /\ tab = NoTab
    /\ loadErr = "none"
    /\ calc = NoCalc
    /\ nb = NewNotebook
    /\ cw = NewConfigWindow(<<>>)

Worker(i) ==
    \/ Begin(i)
    \/ CheckFlag(i)
    \/ Resample(i)
    \/ WriteTile(i)
    \/ AfterInner(i)

Next ==
    \/ Construct
    \/ StartThread
    \/ JoinThread
    \/ \E i \in 1..MaxThreads : Worker(i)
    \/ \E i \in 1..MaxThreads : TileError(i)
    \/ \E i \in 1..MaxThreads : Cancel(i)

Spec == Init /\ [][Next]_vars

(***************************************************************************)
(* Tab.loadYAML                                                            *)
(***************************************************************************)
RequiredKeys == <<"lat min", "lat max", "long min", "long max", "step">>

\* the value of an optional index: 0 when absent, else int(value)
IndexOrDefault(conf, key) == IF key \in DOMAIN conf THEN PyInt(conf[key]) ELSE 0

UnitOrDefault(conf) == IF "unit" \in DOMAIN conf THEN conf["unit"] ELSE DefaultUnit

\* a failed load: self.confParams = {} and the error raised
LoadFailure(err) ==
    [err |-> err, confParams |-> EmptyDict, longitude |-> <<>>,
     latitude |-> <<>>, lenLong |-> 0, lenLat |-> 0]

MissingKey(conf) ==
    \E n \in 1..Len(RequiredKeys) : RequiredKeys[n] \notin DOMAIN conf

\* loadYAML after the presence checks, on a mapping holding the required
\* keys.  After an inverted bound is found confParams is emptied before the
\* message of the ValueError is formatted from confParams['lat min'], so
\* what is raised is a KeyError.
LoadChecked(conf) ==
    IF conf["lat min"] >= conf["lat max"] THEN LoadFailure("KeyError")
    ELSE IF conf["long min"] >= conf["long max"] THEN LoadFailure("KeyError")
    ELSE IF conf["step"] <= 0 THEN LoadFailure("ValueError")
    ELSE LET longitude == Arange(conf["long min"],
                                 conf["long max"] + conf["step"], conf["step"])
             latitude  == Arange(conf["lat min"],
                                 conf["lat max"] + conf["step"], conf["step"])
         IN  [err        |-> "none",
              confParams |-> ("x0" :> IndexOrDefault(conf, "x0")) @@
                             ("y0" :> IndexOrDefault(conf, "y0")) @@
                             ("unit" :> UnitOrDefault(conf)) @@ conf,
              longitude  |-> longitude,
              latitude   |-> latitude,
              lenLong    |-> Len(longitude),
              lenLat     |-> Len(latitude)]

\* a loader that fills a missing bound or step with a default
LoadYAMLBad(conf) ==
    LoadChecked(conf @@ ("lat min" :> Fix(-90)) @@ ("lat max" :> Fix(90)) @@
                ("long min" :> Fix(-180)) @@ ("long max" :> Fix(180)) @@
                ("step" :> Fix(90)))

\* loadYAML on a file holding the mapping conf: the error raised ("none"
\* when it returns) and the attributes it sets
LoadYAML(conf) ==
    IF MissingKey(conf) THEN LoadFailure("IOError") ELSE LoadChecked(conf)

\* array[i] of a numpy array of length n does not raise
ValidIndex(i, n) == -n <= i /\ i < n

(***************************************************************************)
(* Viewer: manifests on disk and Tab.load                                  *)
(***************************************************************************)
\* arguments of the runs whose manifest the viewer is given
ViewerArgs == {a \in ArgSet : /\ Plain(a)
                              /\ a.numThreads = 1
                              /\ a.shape = <<2, 4, 1>>
                              /\ a.allLong.given = a.allLat.given}

\* manifests written by hand: complete ones, with sound or degenerate bounds
FullManifests ==
    { ("lat min" :> Fix(la)) @@ ("lat max" :> Fix(10)) @@
      ("long min" :> Fix(lo)) @@ ("long max" :> Fix(20)) @@
      ("step" :> Fix(st)) @@ ("unit" :> "rad")
      : la \in {0, 10}, lo \in {0, 20}, st \in {-10, 0, 10} }

SoundManifest ==
    ("lat min" :> Fix(0)) @@ ("lat max" :> Fix(10)) @@
    ("long min" :> Fix(0)) @@ ("long max" :> Fix(20)) @@
    ("step" :> Fix(10)) @@ ("unit" :> "rad")

\* a sound one with initial indices, whole or fractional
IndexedManifests ==
    { ("x0" :> x) @@ ("y0" :> y) @@ SoundManifest
      : x \in {Fix(1), 25, Fix(3)}, y \in {Fix(0), -15} }

Without(conf, key) == [k \in DOMAIN conf \ {key} |-> conf[k]]

\* a sound one and one with inverted latitudes, with one key removed
PartialManifests ==
    { Without(m, k)
      : k \in {"lat min", "lat max", "long min", "long max", "step", "unit"},
        m \in {SoundManifest, ("lat min" :> Fix(20)) @@ SoundManifest} }

HandManifests == FullManifests \cup IndexedManifests \cup PartialManifests

\* the manifest on disk is replaced once the tab has read it
DiskRead == disk = <<>> \/ tab.src = disk

\* RunProjection.__init__ writes the manifest of a project
GenerateProject ==
    /\ DiskRead
    /\ \E a \in ViewerArgs :
          disk' = <<[origin |-> "generator", conf |-> ManifestOf(RunOf(a)),
                     run |-> RunOf(a)]>>
    /\ UNCHANGED <<tab, loadErr>>
    /\ UNCHANGED <<genVars, calcVars, uiVars>>

\* a manifest written by hand is put on disk
EditManifest ==
    /\ DiskRead
    /\ \E m \in HandManifests :
          disk' = <<[origin |-> "editor", conf |-> m, run |-> NoRun]>>
    /\ UNCHANGED <<tab, loadErr>>
    /\ UNCHANGED <<genVars, calcVars, uiVars>>

\* the Tab after load(file): self.yaml is set first, then loadYAML runs; the
\* rest is skipped when it raises
TabAfterLoad(t, file, r) ==
    IF r.err # "none"
    THEN [t EXCEPT !.yaml = "out.yaml", !.confParams = r.confParams,
                   !.src = <<file>>]
    ELSE [t EXCEPT !.yaml = "out.yaml", !.confParams = r.confParams,
                   !.longitude = r.longitude, !.latitude = r.latitude,
                   !.lenLong = r.lenLong, !.lenLat = r.lenLat,
                   !.loaded = TRUE, !.src = <<file>>]

\* error load(file) ends with: that of loadYAML, or the IndexError of
\* updateSliders reading self.latitude[y0] and self.longitude[x0]
LoadError(r) ==
    IF r.err # "none" THEN r.err
    ELSE IF ~ValidIndex(r.confParams["y0"], Len(r.latitude)) THEN "IndexError"
    ELSE IF ~ValidIndex(r.confParams["x0"], Len(r.longitude)) THEN "IndexError"
    ELSE "none"

Load ==
    /\ disk # <<>>
    /\ LET r == LoadYAML(disk[1].conf)
       IN  /\ tab' = TabAfterLoad(tab, disk[1], r)
           /\ loadErr' = LoadError(r)
    /\ UNCHANGED disk
    /\ UNCHANGED <<genVars, calcVars, uiVars>>

(***************************************************************************)
(* Viewer: drag and slider events of a loaded Tab                          *)
(***************************************************************************)
\* one step of an index in onMove: wrap at both ends, else add the sign
MoveIndex(v, len, sign) ==
    IF v = len - 1 /\ sign > 0 THEN 0
    ELSE IF v = 0 /\ sign < 0 THEN len - 1
    ELSE v + sign

\* updateSliders of a loaded Tab: the error of reading confParams['y0'],
\* confParams['x0'], self.latitude[y0] and self.longitude[x0]
SlidersError(t) ==
    IF "y0" \notin DOMAIN t.confParams \/ "x0" \notin DOMAIN t.confParams
    THEN "KeyError"
    ELSE IF ~ValidIndex(t.confParams["y0"], Len(t.latitude)) THEN "IndexError"
    ELSE IF ~ValidIndex(t.confParams["x0"], Len(t.longitude)) THEN "IndexError"
    ELSE "none"

\* onMove while the button is held: sx and sy are the signs of the moves
\* that reach xstep and ystep, 0 for a move that does not
MoveTab(t, sx, sy) ==
    IF sx # 0 /\ "x0" \notin DOMAIN t.confParams
    THEN [tab |-> t, err |-> "KeyError"]
    ELSE LET tx == IF sx = 0 THEN t
                   ELSE [t EXCEPT !.confParams["x0"] =
                                     MoveIndex(@, t.lenLong, sx)]
         IN  IF sy # 0 /\ "y0" \notin DOMAIN t.confParams
             THEN [tab |-> tx, err |-> "KeyError"]
             ELSE LET ty == IF sy = 0 THEN tx
                            ELSE [tx EXCEPT !.confParams["y0"] =
                                               MoveIndex(@, t.lenLat, sy)]
                  IN  [tab |-> ty, err |-> SlidersError(ty)]

\* the indices a drag may reach stay within -MaxIndex..MaxIndex
IndexBounded(t) ==
    \A k \in {"x0", "y0"} \cap DOMAIN t.confParams :
       -MaxIndex <= t.confParams[k] /\ t.confParams[k] <= MaxIndex

OnMove ==
    /\ tab.loaded
    /\ \E sx \in {-1, 0, 1}, sy \in {-1, 0, 1} :
          LET r == MoveTab(tab, sx, sy)
          IN  /\ IndexBounded(r.tab)
              /\ tab' = [r.tab EXCEPT !.eventErr = r.err]
    /\ UNCHANGED <<disk, loadErr>>
    /\ UNCHANGED <<genVars, calcVars, uiVars>>

\* np.where(axis == float(value))[0][0], or the current index when the
\* value is not on the axis; keep <<>> stands for a missing current index
IndexOfValue(axis, value, keep) ==
    IF \E n \in 1..Len(axis) : axis[n] = value
    THEN <<(CHOOSE n \in 1..Len(axis) :
               axis[n] = value /\ \A m \in 1..(n - 1) : axis[m] # value) - 1>>
    ELSE keep

Current(t, key) ==
    IF key \in DOMAIN t.confParams THEN <<t.confParams[key]>> ELSE <<>>

\* updateGraph(latitude, longitude) of a loaded Tab, up to the labels
GraphTab(t, latitude, longitude) ==
    LET y0 == IndexOfValue(t.latitude, latitude, Current(t, "y0"))
        x0 == IndexOfValue(t.longitude, longitude, Current(t, "x0"))
    IN  IF y0 = <<>> \/ x0 = <<>> THEN [tab |-> t, err |-> "KeyError"]
        ELSE LET tn == [t EXCEPT !.confParams =
                          ("y0" :> y0[1]) @@ ("x0" :> x0[1]) @@ @]
             IN  [tab |-> tn,
                  err |-> IF ~ValidIndex(x0[1], Len(t.longitude))
                             \/ ~ValidIndex(y0[1], Len(t.latitude))
                          THEN "IndexError" ELSE "none"]

\* the values a slider hands over: those of the axis and one beside them
SliderValues(axis) == Range(axis) \cup {Fix(5)}

\* mainApplication.updateScale: a slider of the selected, loaded tab moves
UpdateGraph ==
    /\ tab.loaded
    /\ \E latitude \in SliderValues(tab.latitude),
          longitude \in SliderValues(tab.longitude) :
          LET r == GraphTab(tab, latitude, longitude)
          IN  tab' = [r.tab EXCEPT !.eventErr = r.err]
    /\ UNCHANGED <<disk, loadErr>>
    /\ UNCHANGED <<genVars, calcVars, uiVars>>

InitViewer ==
    /\ args \in {a \in ViewerArgs : a.step = 180 /\ ~a.allLong.given
                                    /\ ~a.allLat.given /\ ~a.initPos.given}
    /\ pc = "new"
    /\ configErr = "none"
    /\ run = NoRun
    /\ threads = <<>>
    /\ joined = 0
    /\ manifest = <<>>
    /\ manifestWrites = <<>>
    /\ tiles = EmptyDict
    /\ lateWrites = {}
    /\ cancels = 0
    /\ cancelEarly = FALSE
    /\ disk = <<>>
    /\ tab = NoTab
    /\ loadErr = "none"
    /\ calc = NoCalc
    /\ nb = NewNotebook
    /\ cw = NewConfigWindow(<<>>)

NextViewer ==
    \/ GenerateProject
    \/ EditManifest
    \/ Load
    \/ OnMove
    \/ UpdateGraph

SpecViewer == InitViewer /\ [][NextViewer]_vars

(***************************************************************************)
(* Properties of a generation run (Spec)                                   *)
(***************************************************************************)
Constructed == pc \in {"ready", "joining", "done"}

Abs(n) == IF n < 0 THEN -n ELSE n

\* the file names of the full grid
GridNames == {TileName(i, j) : i \in 0..run.lenLong, j \in 0..run.lenLat}

\* C1: the shards RunProjection builds are contiguous runs of longitude
\* indices, pairwise disjoint, of sizes that differ by at most 1, and their
\* union is exactly 0..lenLong, for every requested numThreads >= 1
C1_Sharding ==
    Constructed =>
        LET L == run.long
        IN  /\ \A s \in 1..Len(L) : \A j \in 1..(Len(L[s]) - 1) :
                   L[s][j + 1] = L[s][j] + 1
            /\ UNION {Range(L[s]) : s \in 1..Len(L)} = 0..run.lenLong
            /\ \A s, t \in 1..Len(L) :
                   s # t => Range(L[s]) \cap Range(L[t]) = {}
            /\ \A s, t \in 1..Len(L) : Abs(Len(L[s]) - Len(L[t])) <= 1

C1_Witness ==
    /\ pc = "ready"
    /\ Len(run.long) >= 2
    /\ Len(run.long[1]) = 2
    /\ Len(run.long[2]) = 1

\* C2: when a run ends with no stop request and no worker error, the tiles
\* written are exactly those of the grid 0..lenLong x 0..lenLat, each written
\* exactly once
C2_FullCoverage ==
    (/\ pc = "done"
     /\ cancels = 0
     /\ \A i \in 1..Len(threads) : threads[i].st = "done")
    => /\ DOMAIN tiles = GridNames
       /\ \A n \in DOMAIN tiles : tiles[n] = 1

C2_Witness ==
    /\ pc = "done"
    /\ cancels = 0
    /\ Len(threads) >= 2
    /\ \A i \in 1..Len(threads) : threads[i].st = "done"
    /\ Cardinality(DOMAIN tiles) >= 4

\* C3: the manifest is written exactly once, by the controlling thread,
\* before any worker is started; whenever a worker or a tile exists, the
\* manifest exists
C3_ManifestFirst ==
    /\ Len(manifestWrites) <= 1
    /\ \A n \in 1..Len(manifestWrites) : manifestWrites[n] = "controller"
    /\ (Len(threads) > 0 \/ DOMAIN tiles # {})
          => (manifest # <<>> /\ Len(manifestWrites) = 1)

C3_Witness ==
    /\ DOMAIN tiles # {}
    /\ manifest # <<>>
    /\ pc = "joining"

\* the step of worker i starts a tile (or fails in starting it)
StartsTile(i) ==
    /\ threads[i].st \in {"check", "after"}
    /\ threads'[i].st \in {"chan", "write", "failed"}

\* C7 as claimed: once its flag is cleared a worker starts no new tile and
\* does not finish the tile in flight (that tile is never written)
C7_Original ==
    /\ [][\A i \in 1..Len(threads) : ~threads[i].ok => ~StartsTile(i)]_vars
    /\ [](\A i \in 1..Len(threads) :
             threads[i].cut # <<>> => threads[i].cut[1].name \notin DOMAIN tiles)

\* C7 amended: the flag is read before each (lonIdx, latIdx) iteration and
\* after each latitude loop only; once it is cleared the worker starts no new
\* tile, but the tile in flight is finished: unless it raises, its remaining
\* channels are resampled and it is written before the worker ends
C7_Amended ==
    /\ [][\A i \in 1..Len(threads) : ~threads[i].ok => ~StartsTile(i)]_vars
    /\ [](\A i \in 1..Len(threads) :
             (threads[i].cut # <<>> /\ threads[i].st \in {"check", "after", "done"})
                => threads[i].cut[1].name \in DOMAIN tiles)

C7_Witness ==
    \E i \in 1..Len(threads) :
        /\ threads[i].cut # <<>>
        /\ threads[i].cut[1].ch = 1
        /\ Channels(args.shape) = 3
        /\ threads[i].st = "done"
        /\ threads[i].cut[1].name \in DOMAIN tiles

\* C8: after a single stop request made before the last tile was started,
\* the run ends with fewer tiles than the full grid
C8_SingleRequestStopsRun ==
    (pc = "done" /\ cancels = 1 /\ cancelEarly)
    => Cardinality(DOMAIN tiles) < (run.lenLong + 1) * (run.lenLat + 1)

\* C9: run() ends only after every worker was started and has ended, each
\* join coming after all the starts; no tile is written after run() returned
C9_JoinAll ==
    /\ (pc = "joining" \/ joined > 0) => Len(threads) = run.numThreads
    /\ pc = "done" =>
          /\ Len(threads) = run.numThreads
          /\ joined = run.numThreads
          /\ \A i \in 1..Len(threads) : threads[i].st \in {"done", "failed"}
    /\ lateWrites = {}

C9_Witness ==
    /\ pc = "done"
    /\ Len(threads) >= 2
    /\ joined = Len(threads)
    /\ DOMAIN tiles # {}

\* worker w failed on the tile (i, j)
FailedOn(w, i, j) ==
    /\ threads[w].st = "failed"
    /\ threads[w].k <= Len(threads[w].indices)
    /\ threads[w].indices[threads[w].k] = i
    /\ threads[w].pos = j

\* C10: a tile that raises is the only one skipped: at the end of a run
\* without stop request every tile of the grid is written, except the tiles
\* whose production raised
C10_TileFailureIsolation ==
    (pc = "done" /\ cancels = 0 /\ Len(args.shape) = 3)
    => \A i \in 0..run.lenLong, j \in 0..run.lenLat :
          \/ TileName(i, j) \in DOMAIN tiles
          \/ \E w \in 1..Len(threads) : FailedOn(w, i, j)

(***************************************************************************)
(* Properties of the manifest loader (SpecViewer)                          *)
(***************************************************************************)
Loaded == tab.src # <<>>

\* C4: a manifest written by writeYAML, as RunProjection calls it, loads
\* without error and yields the x0, y0, bounds, step and unit given to the
\* writer
C4_RoundTrip ==
    (Loaded /\ tab.src[1].origin = "generator")
    => LET r == tab.src[1].run
           c == tab.confParams
       IN  /\ loadErr = "none"
           /\ c["x0"] = r.initPos[1]
           /\ c["y0"] = r.initPos[2]
           /\ c["lat min"] = Fix(r.allLat[1])
           /\ c["lat max"] = Fix(r.allLat[Len(r.allLat)])
           /\ c["long min"] = Fix(r.allLong[1])
           /\ c["long max"] = Fix(r.allLong[Len(r.allLong)])
           /\ c["step"] = Fix(r.step)
           /\ c["unit"] = DefaultUnit

\* the manifest holds every required key and its bounds are inverted or its
\* step is not positive
Degenerate(conf) ==
    /\ ~MissingKey(conf)
    /\ \/ conf["lat min"] >= conf["lat max"]
       \/ conf["long min"] >= conf["long max"]
       \/ conf["step"] <= 0

\* C5: loading a manifest with inverted bounds or a step <= 0 fails with
\* the ValueError of loadYAML and no other error, and no axis is derived
C5_InvalidManifestError ==
    (Loaded /\ Degenerate(tab.src[1].conf))
    => /\ loadErr = "ValueError"
       /\ DOMAIN tab.confParams = {}

\* C6: loading a manifest that lacks lat min, lat max, long min, long max or
\* step raises an error, and no value is substituted for a missing bound or
\* step: the parameters of the tab hold none
C6_MissingFieldRaises ==
    (Loaded /\ MissingKey(tab.src[1].conf))
    => /\ loadErr # "none"
       /\ \A n \in 1..Len(RequiredKeys) :
             RequiredKeys[n] \notin DOMAIN tab.confParams

C6_Witness ==
    /\ Loaded
    /\ tab.src[1].origin = "editor"
    /\ DOMAIN tab.src[1].conf =
          {"lat min", "lat max", "long min", "long max", "unit"}
    /\ loadErr = "IOError"

(***************************************************************************)
(* Further properties of a generation run (Spec)                           *)
(***************************************************************************)
Min(a, b) == IF a < b THEN a ELSE b

\* C11: a run starts min(numThreads, lenLong + 1) workers, and every worker
\* started owns at least one longitude index
C11_WorkerClamp ==
    /\ Constructed =>
          /\ Len(threads) <= Min(args.numThreads, run.lenLong + 1)
          /\ \A i \in 1..Len(threads) : Len(threads[i].indices) >= 1
    /\ pc \in {"joining", "done"} =>
          Len(threads) = Min(args.numThreads, run.lenLong + 1)

C11_Witness ==
    /\ pc = "joining"
    /\ args.numThreads = 3
    /\ run.lenLong + 1 = 2
    /\ Len(threads) = 2

\* C13: the manifest records x0 = 0 and y0 = lenLat when the caller gives no
\* initial position, and the caller's pair when one is given
C13_DefaultInitPos ==
    Constructed =>
        IF args.initPos.given
        THEN /\ manifest[1]["x0"] = Fix(args.initPos.val[1])
             /\ manifest[1]["y0"] = Fix(args.initPos.val[2])
        ELSE /\ manifest[1]["x0"] = Fix(0)
             /\ manifest[1]["y0"] = Fix(run.lenLat)

C13_Witness ==
    /\ pc = "ready"
    /\ ~args.initPos.given
    /\ run.lenLat = 1
    /\ manifest[1]["y0"] = Fix(1)

\* the files worker t may write
ShardNames(t) ==
    {TileName(t.indices[k], j) : k \in 1..Len(t.indices), j \in 0..run.lenLat}

GridPairs == (0..run.lenLong) \X (0..run.lenLat)

\* C15: the file name is an injective function of (lonIdx, latIdx), the
\* workers' sets of output paths are pairwise disjoint, and no file is ever
\* written twice
C15_DisjointPaths ==
    Constructed =>
        /\ \A p, q \in GridPairs :
              p # q => TileName(p[1], p[2]) # TileName(q[1], q[2])
        /\ \A i, j \in 1..Len(threads) :
              i # j => ShardNames(threads[i]) \cap ShardNames(threads[j]) = {}
        /\ \A n \in DOMAIN tiles : tiles[n] <= 1

C15_Witness ==
    /\ Len(threads) >= 2
    /\ ShardNames(threads[1]) \cap DOMAIN tiles # {}
    /\ ShardNames(threads[2]) \cap DOMAIN tiles # {}

\* C16: within a worker a tile is never written before a tile of the same
\* worker with a smaller longitude index, or with the same longitude index
\* and a smaller latitude index
C16_WorkerOrder ==
    \A w \in 1..Len(threads) :
        LET ind == threads[w].indices
        IN  \A ka, kb \in 1..Len(ind) : \A ja, jb \in 0..run.lenLat :
               (/\ ind[ka] < ind[kb] \/ (ind[ka] = ind[kb] /\ ja < jb)
                /\ TileName(ind[kb], jb) \in DOMAIN tiles)
               => TileName(ind[ka], ja) \in DOMAIN tiles

C16_Witness ==
    \E w \in 1..Len(threads) :
        /\ Len(threads[w].indices) >= 2
        /\ run.lenLat >= 1
        /\ TileName(threads[w].indices[2], 1) \in DOMAIN tiles

\* C17: every worker resamples onto the output size given to RunProjection
C17_OutputSize ==
    \A i \in 1..Len(threads) : threads[i].size = args.size

\* C18: a run constructed with numThreads < 1, a non-integer numThreads, a
\* non-numeric step or a step <= 0 raises at construction: no worker is
\* started and no tile is written
C18_FailFast ==
    (\/ args.numThreads < 1
     \/ args.numThreadsType # "int"
     \/ args.stepType = "str"
     \/ args.step <= 0)
    => /\ pc \in {"new", "error"}
       /\ threads = <<>>
       /\ DOMAIN tiles = {}

(***************************************************************************)
(* Functions of the engine, called on their own (SpecCalc)                 *)
(***************************************************************************)
MaxGridLat == 11

\* steps of the default grids whose axes are built
CalcSteps == {30, 45, 60, 90, 100, 120, 180, 200, 360}

\* RunProjection(data, directory, name, step, 1): the default grid of a step
DefaultArgs(step) ==
    [numThreads |-> 1, numThreadsType |-> "int", step |-> step,
     stepType |-> "int", allLong |-> Opt(FALSE, <<>>),
     allLat |-> Opt(FALSE, <<>>), initPos |-> Opt(FALSE, <<>>),
     size |-> DefaultSize, shape |-> <<2, 4, 1>>]

\* the axes RunProjection.__init__ builds for a step
CalcAxes ==
    /\ calc = NoCalc
    /\ \E step \in CalcSteps :
          calc' = [op |-> "axes", step |-> step, run |-> RunOf(DefaultArgs(step))]
    /\ UNCHANGED <<genVars, viewVars, uiVars>>

(***************************************************************************)
(* Tab.getData on the directory of a generated project                     *)
(***************************************************************************)
IsPrefix(p, f) == Len(p) <= Len(f) /\ SubSeq(f, 1, Len(p)) = p

\* opath.splitext(self.yaml)[0] + '_%d,%d' % (x0, y0), the part of the glob
\* pattern before the final '*'
GlobPrefix(x0, y0) == <<"out", "_">> \o FormatD(x0) \o <<",">> \o FormatD(y0)

\* the files of a project generated on an nLong x nLat grid
ProjectFiles(nLong, nLat) ==
    {TileName(i, j) : i \in 0..(nLong - 1), j \in 0..(nLat - 1)}
        \cup {<<"out", ".yaml">>}

\* glob(name): the files the pattern matches, in no specified order
Glob(files, x0, y0) == {f \in files : IsPrefix(GlobPrefix(x0, y0), f)}

\* getData: file[0] of the list glob returns, whose order is that of the
\* directory listing
CalcGetData ==
    /\ calc = NoCalc
    /\ \E nLong \in 1..2, nLat \in 1..MaxGridLat :
         \E x0 \in 0..(nLong - 1), y0 \in 0..(nLat - 1) :
            LET found == Glob(ProjectFiles(nLong, nLat), x0, y0)
            IN  IF found = {}
                THEN calc' = [op |-> "getData", nLong |-> nLong, nLat |-> nLat,
                              x0 |-> x0, y0 |-> y0, err |-> "IOError",
                              file |-> <<>>]
                ELSE \E f \in found :
                        calc' = [op |-> "getData", nLong |-> nLong,
                                 nLat |-> nLat, x0 |-> x0, y0 |-> y0,
                                 err |-> "none", file |-> f]
    /\ UNCHANGED <<genVars, viewVars, uiVars>>

(***************************************************************************)
(* Basemap(lat_0, lon_0): construction                                     *)
(***************************************************************************)
\* _validated_or_none(param, name, minval, maxval) does not raise
ValidatedOrNone(p, minval, maxval) ==
    ~p.given \/ ValidatedLL(p.val, minval, maxval)

\* the error Basemap.__init__ raises for the aeqd projection, "none" when
\* the object is built
BasemapInit(lat0, lon0) ==
    IF ~ValidatedOrNone(lat0, LatMin, LatMax) THEN "ValueError"
    ELSE IF ~ValidatedOrNone(lon0, LonBandMin, LonBandMax) THEN "ValueError"
    ELSE IF ~lat0.given \/ ~lon0.given THEN "ValueError"
    ELSE "none"

LatSamples == {LatMin - 1, LatMin, 0, LatMax, LatMax + 1}
LonSamples == {LonBandMin - 1, LonBandMin, 0, LonBandMax, LonBandMax + 1}

CalcBasemap ==
    /\ calc = NoCalc
    /\ \E lat0 \in {Opt(FALSE, 0)} \cup {Opt(TRUE, v) : v \in LatSamples},
          lon0 \in {Opt(FALSE, 0)} \cup {Opt(TRUE, v) : v \in LonSamples} :
          calc' = [op |-> "basemap", lat0 |-> lat0, lon0 |-> lon0,
                   err |-> BasemapInit(lat0, lon0)]
    /\ UNCHANGED <<genVars, viewVars, uiVars>>

(***************************************************************************)
(* interp(datain, xin, yin, xout, yout, checkbounds, masked, order) at one *)
(* target point.  Grid coordinates are fractions <<numerator, denominator>>*)
(* with a positive denominator.                                            *)
(***************************************************************************)
\* source axes: uniform and non-uniform spacing
XinSet == {<<0, 10, 20>>, <<0, 10, 30>>}
YinSet == {<<0, 10, 20>>, <<0, 5, 20>>}

\* target coordinates, inside and outside the axes
XoutSet == {-10, -5, 0, 5, 10, 15, 20, 25, 30, 35}
YoutSet == {-10, 0, 5, 10, 20, 30}

Orders == {0, 1, 2, 3}

\* datain[y, x]: a raster whose pixels all differ
Datain(yin, xin) ==
    [r \in 0..(Len(yin) - 1), c \in 0..(Len(xin) - 1) |-> 10 * r + c + 1]

\* xin[1:] - xin[0:-1]
Deltas(xin) == {xin[n + 1] - xin[n] : n \in 1..(Len(xin) - 1)}

\* max(delx) - min(delx) < 1.e-4, on integer axes
RegularAxis(xin) == \A d, e \in Deltas(xin) : d = e

\* (len(xin)-1)*(xout-xin[0])/(xin[-1]-xin[0])
RegularCoord(xin, x) ==
    <<(Len(xin) - 1) * (x - xin[1]), xin[Len(xin)] - xin[1]>>

\* np.searchsorted(xin, x): the number of elements below x
SearchSorted(xin, x) == Cardinality({n \in 1..Len(xin) : xin[n] < x})

\* the grid coordinate of the irregular path, -1 and len(xin) for a target
\* outside the axis
IrregularCoord(xin, x) ==
    LET i == SearchSorted(xin, x) - 1
    IN  IF i < 0 THEN <<-1, 1>>
        ELSE IF i >= Len(xin) - 1 THEN <<Len(xin), 1>>
        ELSE <<i * (xin[i + 2] - xin[i + 1]) + (x - xin[i + 1]),
               xin[i + 2] - xin[i + 1]>>

\* a coordinate left as computed
ClipBad(c, hi) == c

\* np.clip(xcoords, 0, len(xin)-1)
Clip(c, hi) ==
    IF c[1] < 0 THEN <<0, c[2]>>
    ELSE IF c[1] > hi * c[2] THEN <<hi * c[2], c[2]>>
    ELSE c

\* the neighbour index left as computed
ClipIndexBad(i, hi) == i

\* np.clip(xi+1, 0, len(xin)-1) on an index
ClipIndex(i, hi) == IF i < 0 THEN 0 ELSE IF i > hi THEN hi ELSE i

\* xcoords.astype(np.int32): truncation toward zero
Trunc(c) == IF c[1] >= 0 THEN c[1] \div c[2] ELSE -((-c[1]) \div c[2])

\* np.around(xcoords): to the nearest integer, halves to the even one
Around(c) ==
    LET f == c[1] \div c[2]
        r == c[1] % c[2]
    IN  IF 2 * r < c[2] THEN f
        ELSE IF 2 * r > c[2] THEN f + 1
        ELSE IF f % 2 = 0 THEN f ELSE f + 1

\* whether (yi, xi) is an element of datain
InRaster(datain, p) == p \in DOMAIN datain

\* datain[yi, xi], 0 where the index is not one of the raster
Pixel(datain, p) == IF InRaster(datain, p) THEN datain[p] ELSE 0

\* the bilinear blend of order 1
Bilinear(datain, xc, yc, nx, ny) ==
    LET xi   == Trunc(xc)
        yi   == Trunc(yc)
        xip1 == ClipIndex(xi + 1, nx - 1)
        yip1 == ClipIndex(yi + 1, ny - 1)
        dx   == xc[1] - xi * xc[2]
        dy   == yc[1] - yi * yc[2]
    IN  [err   |-> "none",
         reads |-> {<<yi, xi>>, <<yip1, xip1>>, <<yip1, xi>>, <<yi, xip1>>},
         val   |-> <<  (xc[2] - dx) * (yc[2] - dy) * Pixel(datain, <<yi, xi>>)
                     + dx * dy * Pixel(datain, <<yip1, xip1>>)
                     + (xc[2] - dx) * dy * Pixel(datain, <<yip1, xi>>)
                     + dx * (yc[2] - dy) * Pixel(datain, <<yi, xip1>>),
                     xc[2] * yc[2] >>,
         masked |-> FALSE]

\* the nearest pixel of order 0
Nearest(datain, xc, yc) ==
    LET p == <<Around(yc), Around(xc)>>
    IN  [err |-> "none", reads |-> {p}, val |-> <<Pixel(datain, p), 1>>,
         masked |-> FALSE]

\* a call that ends silently instead of raising
InterpErrorBad == [err |-> "none", reads |-> {}, val |-> <<0, 1>>,
                   masked |-> FALSE]

\* raise ValueError(...): no data is returned
InterpError == [err |-> "ValueError", reads |-> {}, val |-> <<0, 1>>,
                masked |-> FALSE]

\* interp at the target (x, y); scipy tells whether scipy.ndimage imports
interp(datain, xin, yin, x, y, checkbounds, masked, order, scipy) ==
    LET nx == Len(xin)
        ny == Len(yin)
        regular == RegularAxis(xin) /\ RegularAxis(yin)
        xraw == IF regular THEN RegularCoord(xin, x) ELSE IrregularCoord(xin, x)
        yraw == IF regular THEN RegularCoord(yin, y) ELSE IrregularCoord(yin, y)
        xymask ==    xraw[1] < 0 \/ xraw[1] > (nx - 1) * xraw[2]
                  \/ yraw[1] < 0 \/ yraw[1] > (ny - 1) * yraw[2]
        xc == Clip(xraw, nx - 1)
        yc == Clip(yraw, ny - 1)
        out == IF order = 1 THEN Bilinear(datain, xc, yc, nx, ny)
               ELSE IF order = 0 THEN Nearest(datain, xc, yc)
               ELSE IF order = 3
                    THEN IF scipy
                         THEN [err |-> "none", reads |-> {},
                               val |-> <<0, 1>>, masked |-> FALSE]
                         ELSE InterpError
               ELSE InterpError
    IN  IF xin[nx] - xin[1] < 0 \/ yin[ny] - yin[1] < 0 THEN InterpError
        ELSE IF checkbounds /\ (   x < xin[1] \/ x > xin[nx]
                                \/ y < yin[1] \/ y > yin[ny])
             THEN InterpError
        ELSE IF out.err = "none" /\ masked
             THEN [out EXCEPT !.masked = xymask]
        ELSE out

CalcInterp ==
    /\ calc = NoCalc
    /\ \E xin \in XinSet, yin \in YinSet, x \in XoutSet, y \in YoutSet,
          checkbounds \in BOOLEAN, masked \in BOOLEAN, order \in Orders,
          scipy \in BOOLEAN :
          calc' = [op |-> "interp", xin |-> xin, yin |-> yin, x |-> x, y |-> y,
                   checkbounds |-> checkbounds, masked |-> masked,
                   order |-> order, scipy |-> scipy,
                   out |-> interp(Datain(yin, xin), xin, yin, x, y,
                                  checkbounds, masked, order, scipy)]
    /\ UNCHANGED <<genVars, viewVars, uiVars>>

(***************************************************************************)
(* Basemap.transform_scalar and interp on axes that are not increasing     *)
(***************************************************************************)
\* axes with a repeated value, descending, and with one descending pair
RepeatedAxis == <<0, 10, 10>>
DescendingAxis == <<20, 10, 0>>
DippingAxis == <<0, 20, 10>>

\* the axes handed to interp itself, and to transform_scalar
InterpAxes(good) == good \cup {RepeatedAxis, DescendingAxis}
ScalarAxes(good) == good \cup {RepeatedAxis, DescendingAxis, DippingAxis}

\* min(delon) < 0. or min(delat) < 0.
HasDescendingPair(lons) == \E d \in Deltas(lons) : d < 0

\* the longitudes outside -180..180 that transform_scalar refuses for a
\* non-cylindrical projection
LonsRefused(lons) ==
    LET count == Cardinality({n \in 1..Len(lons) :
                                 lons[n] < -180 \/ lons[n] > 180})
    IN  \/ count > 1
        \/ count = 1 /\ lons[Len(lons)] - lons[1] # 360

\* m.transform_scalar(datin, lons, lats, nx, ny) at one point (x, y) of the
\* grid makegrid returns
transform_scalar(datin, lons, lats, x, y, order) ==
    IF HasDescendingPair(lons) \/ HasDescendingPair(lats) THEN InterpError
    ELSE IF LonsRefused(lons) THEN InterpError
    ELSE interp(datin, lons, lats, x, y, FALSE, FALSE, order, TRUE)

CalcResample ==
    /\ calc = NoCalc
    /\ \E via \in {"interp", "transform_scalar"} :
         \E xin \in IF via = "interp" THEN InterpAxes(XinSet)
                    ELSE ScalarAxes(XinSet),
            yin \in IF via = "interp" THEN InterpAxes(YinSet)
                    ELSE ScalarAxes(YinSet),
            x \in {5, 10, 25}, y \in {5, 10}, order \in {0, 1} :
            calc' = [op |-> "resample", via |-> via, xin |-> xin,
                     yin |-> yin, x |-> x, y |-> y, order |-> order,
                     out |-> IF via = "interp"
                             THEN interp(Datain(yin, xin), xin, yin, x, y,
                                         FALSE, FALSE, order, TRUE)
                             ELSE transform_scalar(Datain(yin, xin), xin, yin,
                                                   x, y, order)]
    /\ UNCHANGED <<genVars, viewVars, uiVars>>

(***************************************************************************)
(* The specification of the calls: each behaviour is one call              *)
(***************************************************************************)
InitCalc ==
    /\ args = DefaultArgs(180)
    /\ pc = "new"
    /\ configErr = "none"
    /\ run = NoRun
    /\ threads = <<>>
    /\ joined = 0
    /\ manifest = <<>>
    /\ manifestWrites = <<>>
    /\ tiles = EmptyDict
    /\ lateWrites = {}
    /\ cancels = 0
    /\ cancelEarly = FALSE
    /\ disk = <<>>
    /\ tab = NoTab
    /\ loadErr = "none"
    /\ calc = NoCalc
    /\ nb = NewNotebook
    /\ cw = NewConfigWindow(<<>>)

NextCalc ==
    \/ CalcAxes
    \/ CalcGetData
    \/ CalcBasemap
    \/ CalcInterp
    \/ CalcResample

SpecCalc == InitCalc /\ [][NextCalc]_vars

(***************************************************************************)
(* Properties of the calls (SpecCalc)                                      *)
(***************************************************************************)
\* the values first, first + step, ... below the limit
Stepping(first, limit, step) ==
    {v \in first..(limit - 1) : (v - first) % step = 0}

Ascending(seq) == \A n \in 1..(Len(seq) - 1) : seq[n] < seq[n + 1]

\* C12 as stated: both default axes run from the lower bound up to and
\* including the upper bound (arange(min, max + step, step)), so that the
\* full sphere at step 90 has longitude indices 0..4, latitude indices 0..2
\* and 15 tiles.
C12_Original ==
    calc.op = "axes" =>
        /\ Range(calc.run.allLong)
              = Stepping(DefLongStart, DefLongStop + calc.step, calc.step)
        /\ Range(calc.run.allLat)
              = Stepping(DefLatStart, DefLatStop + calc.step, calc.step)
        /\ calc.step = 90 =>
              (calc.run.lenLong + 1) * (calc.run.lenLat + 1) = 15

\* C12 amended: the default latitude axis runs from -90 up to and including
\* +90 (arange(-90, 90 + step, step)), the default longitude axis runs from
\* -180 up to but excluding +180 (arange(-180, 180, step)); both ascend,
\* lenLong = len(longitudes) - 1 and lenLat = len(latitudes) - 1.  At step
\* 90 the longitude indices are 0..3, the latitude indices 0..2: 12 tiles.
C12_Amended ==
    calc.op = "axes" =>
        /\ Range(calc.run.allLong)
              = Stepping(DefLongStart, DefLongStop, calc.step)
        /\ Range(calc.run.allLat)
              = Stepping(DefLatStart, DefLatStop + calc.step, calc.step)
        /\ Ascending(calc.run.allLong) /\ Ascending(calc.run.allLat)
        /\ calc.run.lenLong = Len(calc.run.allLong) - 1
        /\ calc.run.lenLat = Len(calc.run.allLat) - 1
        /\ calc.step = 90 =>
              /\ calc.run.lenLong = 3
              /\ calc.run.lenLat = 2
              /\ (calc.run.lenLong + 1) * (calc.run.lenLat + 1) = 12

C12_Witness ==
    /\ calc.op = "axes"
    /\ calc.step = 90
    /\ calc.run.allLong = <<-180, -90, 0, 90>>
    /\ calc.run.allLat = <<-90, 0, 90>>

\* C14: for every grid index (x0, y0) of a fully generated project, the
\* file getData opens is the tile the generator wrote for that pair, never
\* the tile of another pair.
C14_ViewerOpensOwnTile ==
    calc.op = "getData" =>
        /\ calc.err = "none"
        /\ calc.file = TileName(calc.x0, calc.y0)

\* C19: Basemap(lat_0, lon_0) fails if and only if lat_0 is missing or
\* outside [-90, 90], or lon_0 is missing or outside [-360, 720].
C19_TransformValidation ==
    calc.op = "basemap" =>
        (calc.err # "none"
            <=> \/ ~calc.lat0.given
                \/ ~calc.lon0.given
                \/ calc.lat0.val < LatMin \/ calc.lat0.val > LatMax
                \/ calc.lon0.val < LonBandMin \/ calc.lon0.val > LonBandMax)

C19_Witness ==
    /\ calc.op = "basemap"
    /\ calc.lat0 = Opt(TRUE, LatMax)
    /\ calc.lon0 = Opt(TRUE, LonBandMax)
    /\ calc.err = "none"

\* the target moved to the nearest point of the axis
Nearer(xin, x) ==
    IF x < xin[1] THEN xin[1]
    ELSE IF x > xin[Len(xin)] THEN xin[Len(xin)]
    ELSE x

OutsideAxis(xin, x) == x < xin[1] \/ x > xin[Len(xin)]

\* the 0-based index of x on the axis, -1 when x is not one of its values
IndexOn(xin, x) ==
    IF \E n \in 1..Len(xin) : xin[n] = x
    THEN (CHOOSE n \in 1..Len(xin) : xin[n] = x) - 1
    ELSE -1

SameValue(v, w) == v[1] * w[2] = w[1] * v[2]

\* C20: with checkbounds off and no masking, for a target outside the
\* source axes interp of order 0 or 1 raises no error, reads only indices
\* of the raster, and returns the value at the nearest point of the
\* boundary: the pixel there when that point is a grid point.  Order 3,
\* when scipy is there, raises no error either.  Both the regular and the
\* irregular path are covered.
C20_Clamping ==
    (/\ calc.op = "interp"
     /\ ~calc.checkbounds
     /\ ~calc.masked
     /\ OutsideAxis(calc.xin, calc.x) \/ OutsideAxis(calc.yin, calc.y)) =>
        LET datain == Datain(calc.yin, calc.xin)
            nx == Nearer(calc.xin, calc.x)
            ny == Nearer(calc.yin, calc.y)
            at == interp(datain, calc.xin, calc.yin, nx, ny,
                         FALSE, FALSE, calc.order, calc.scipy)
            c  == IndexOn(calc.xin, nx)
            r  == IndexOn(calc.yin, ny)
        IN  /\ calc.order \in {0, 1} =>
                /\ calc.out.err = "none"
                /\ \A p \in calc.out.reads : InRaster(datain, p)
                /\ SameValue(calc.out.val, at.val)
                /\ (c >= 0 /\ r >= 0) =>
                      SameValue(calc.out.val, <<datain[r, c], 1>>)
            /\ (calc.order = 3 /\ calc.scipy) => calc.out.err = "none"

C20_Witness ==
    /\ calc.op = "interp"
    /\ ~calc.checkbounds /\ ~calc.masked
    /\ calc.order = 1
    /\ calc.xin = <<0, 10, 30>>
    /\ calc.x = 35
    /\ calc.y = -10
    /\ calc.out.err = "none"
    /\ SameValue(calc.out.val, <<Datain(calc.yin, calc.xin)[0, 2], 1>>)

OnAxis(xin, x) == \E n \in 1..Len(xin) : xin[n] = x

StrictlyIncreasing(xin) == \A n \in 1..(Len(xin) - 1) : xin[n] < xin[n + 1]

\* C22: resampling fails with a ValueError, before any output value is
\* produced, whenever the source x axis or y axis is not strictly
\* increasing.
C22_InvalidGrid ==
    (/\ calc.op = "resample"
     /\ ~StrictlyIncreasing(calc.xin) \/ ~StrictlyIncreasing(calc.yin)) =>
        /\ calc.out.err = "ValueError"
        /\ calc.out.reads = {}

\* C23: interp with an order other than 0, 1 and 3 raises ValueError and
\* returns no data; so does order 3 when scipy.ndimage cannot be imported:
\* there is no fall-back to order 0 or 1.
C23_UnsupportedOrder ==
    (/\ calc.op = "interp"
     /\ calc.order \notin {0, 1, 3} \/ (calc.order = 3 /\ ~calc.scipy)) =>
        /\ calc.out.err = "ValueError"
        /\ calc.out.reads = {}
        /\ calc.out.val = InterpError.val

C23_Witness ==
    /\ calc.op = "interp"
    /\ calc.order = 3
    /\ ~calc.scipy
    /\ ~calc.checkbounds
    /\ calc.x = 10 /\ calc.y = 10
    /\ calc.out.err = "ValueError"

(***************************************************************************)
(* Further properties of a generation run (Spec)                           *)
(***************************************************************************)
\* the channels of a raster: a height x width array has one
ChannelCount(shape) == IF Len(shape) = 2 THEN 1 ELSE shape[3]

\* C25: for every raster of the data model (height x width, 1 or 3
\* channels) a worker gets to its loops, and the channels of every tile it
\* has written are the resampled channels 0, 1, ... of the source, in that
\* order and as many as the source has.
C25_ChannelOrder ==
    \A i \in 1..Len(threads) :
        /\ Len(args.shape) = 2 => threads[i].st # "failed"
        /\ threads[i].saved # <<>> =>
              threads[i].saved
                 = [c \in 1..ChannelCount(args.shape) |-> c - 1]

(***************************************************************************)
(* Further properties of the viewer (SpecViewer)                           *)
(***************************************************************************)
\* C26: in a loaded tab, after the load and after any drag and slider
\* events, x0 is one of the indices 0..len-1 of the longitude axis and y0
\* one of the indices 0..len-1 of the latitude axis.
C26_ValidIndices ==
    (tab.loaded /\ "x0" \in DOMAIN tab.confParams
                /\ "y0" \in DOMAIN tab.confParams) =>
        /\ tab.confParams["x0"] \in 0..(Len(tab.longitude) - 1)
        /\ tab.confParams["y0"] \in 0..(Len(tab.latitude) - 1)

(***************************************************************************)
(* Further properties of the calls (SpecCalc)                              *)
(***************************************************************************)
\* C27: for every step, each latitude of the default latitude axis lies in
\* [-90, 90] and each longitude of the default longitude axis in
\* [-360, 720], so that Basemap accepts every center of the default grid.
C27_DefaultGridValid ==
    calc.op = "axes" =>
        \A n \in 1..Len(calc.run.allLat), m \in 1..Len(calc.run.allLong) :
            /\ calc.run.allLat[n] \in LatMin..LatMax
            /\ calc.run.allLong[m] \in LonBandMin..LonBandMax
            /\ BasemapOk(calc.run.allLat[n], calc.run.allLong[m])

(***************************************************************************)
(* Further properties of the viewer (SpecViewer)                           *)
(***************************************************************************)
\* C28: when load fails in loadYAML on a tab that holds a loaded project
\* (missing field, inverted bounds, step <= 0), the manifest path, the
\* parameters, the axes and the loaded flag of the tab are those it had
\* before the load.
C28_FailedLoadKeepsState ==
    [][(/\ Load
        /\ tab.loaded
        /\ LoadYAML(disk[1].conf).err # "none")
       => (/\ tab'.yaml = tab.yaml
           /\ tab'.confParams = tab.confParams
           /\ tab'.longitude = tab.longitude
           /\ tab'.latitude = tab.latitude
           /\ tab'.lenLong = tab.lenLong
           /\ tab'.lenLat = tab.lenLat
           /\ tab'.loaded = tab.loaded)]_vars

(***************************************************************************)
(* Configuration window: the thread entry and its two buttons              *)
(***************************************************************************)
\* what can be typed in the entry: validateEntry accepts the empty text
\* and any text int() converts
TypedValues == {<<>>} \cup {<<n>> : n \in 0..(MaxCpu + 1)}

\* the last three branches of updateThreadValue
Buttons(w) ==
    LET value == w.text[1]
        cpu   == w.cpu[1]
    IN  IF value = cpu THEN [w EXCEPT !.maxState = "disabled"]
        ELSE IF value = 1 THEN [w EXCEPT !.minState = "disabled"]
        ELSE [w EXCEPT !.maxState = "normal", !.minState = "normal"]

RECURSIVE EntryTrace(_)
RECURSIVE UpdateThreadValue(_)

\* StringVar.set on the entry's variable: the write trace runs
VarSet(w, text) == EntryTrace([w EXCEPT !.text = text])

\* ConfigWindow.updateThreadValue
UpdateThreadValue(w) ==
    IF w.text = <<>> THEN [w EXCEPT !.error = TRUE]
    ELSE LET w0 == [w EXCEPT !.error = FALSE]
         IN  IF w.cpu = <<>> THEN [w0 EXCEPT !.err = "AttributeError"]
             ELSE LET value == w.text[1]
                      cpu   == w.cpu[1]
                  IN  Buttons(IF value > cpu THEN VarSet(w0, <<cpu>>)
                              ELSE IF value < 1 THEN VarSet(w0, <<1>>)
                              ELSE w0)

\* Entry.trace: the command runs when the value differs from the top of
\* the buffer, then the value is pushed
EntryTrace(w) ==
    IF w.text = w.top THEN w
    ELSE LET u == UpdateThreadValue(w)
         IN  IF u.err # "none" THEN u ELSE [u EXCEPT !.top = u.text]

\* ConfigWindow.decreaseThread
decreaseThread(w) ==
    IF w.text = <<>> \/ w.text = <<1>> THEN VarSet(w, <<1>>)
    ELSE VarSet(w, <<w.text[1] - 1>>)

\* ConfigWindow.increaseThread: the entry's text is a string and cpuCount
\* a number, so the second branch is never taken
increaseThread(w) ==
    IF w.text = <<>> THEN VarSet(w, <<1>>)
    ELSE IF w.cpu = <<>> THEN [w EXCEPT !.err = "AttributeError"]
    ELSE VarSet(w, <<w.text[1] + 1>>)

\* a click on '-': the binding calls the handler unless the button is
\* disabled
PressMinus ==
    /\ cw.minState # "disabled"
    /\ cw' = decreaseThread([cw EXCEPT !.err = "none"])
    /\ UNCHANGED <<genVars, viewVars, calcVars, nb>>

\* a click on '+'
PressPlus ==
    /\ cw.maxState # "disabled"
    /\ cw' = increaseThread([cw EXCEPT !.err = "none"])
    /\ UNCHANGED <<genVars, viewVars, calcVars, nb>>

\* an edit of the entry that validateEntry accepts
TypeThread ==
    /\ \E text \in TypedValues :
            cw' = VarSet([cw EXCEPT !.err = "none"], text)
    /\ UNCHANGED <<genVars, viewVars, calcVars, nb>>

(***************************************************************************)
(* Main window: the notebook and self.tabs                                 *)
(***************************************************************************)
\* what Tab.load does after self.yaml is set: loadYAML raises, the load
\* goes through, or a later step (makeGraph, updateSliders) raises
LoadOutcomes == {"ok", "raise", "late"}

Remove(seq, i) == SubSeq(seq, 1, i - 1) \o SubSeq(seq, i + 1, Len(seq))

\* the tab ttk selects once tab i is forgotten: the nearest following tab
\* that is not disabled, else the nearest preceding one, else none
NextSelectable(tabs, i) ==
    LET after  == {k \in i..Len(tabs) : tabs[k].state = "normal"}
        before == {k \in 1..(i - 1) : tabs[k].state = "normal"}
    IN  IF after # {} THEN CHOOSE k \in after : \A m \in after : k <= m
        ELSE IF before # {}
             THEN CHOOSE k \in before : \A m \in before : k >= m
        ELSE 0

\* the condition delTab removes the selected tab under
CanDeleteBad(t) == TRUE

CanDelete(t) == t.loaded

\* mainApplication.delTab
delTab(n) ==
    IF n.sel = 0 THEN [n EXCEPT !.err = "KeyError"]
    ELSE IF ~CanDelete(n.tabs[n.sel]) THEN n
    ELSE IF ~n.plotWindow THEN [n EXCEPT !.err = "AttributeError"]
    ELSE LET rest == Remove(n.tabs, n.sel)
         IN  [n EXCEPT !.tabs = rest,
                       !.keys = @ \ {n.tabs[n.sel].id},
                       !.sel = NextSelectable(rest, n.sel),
                       !.removed = @ \cup {n.tabs[n.sel]}]

\* Tab.load on the selected tab, as far as the notebook goes
load(n, outcome) ==
    IF outcome = "raise" THEN [n EXCEPT !.err = "KeyError"]
    ELSE LET n1 == IF n.tabs[n.sel].loaded THEN n
                   ELSE AddTab([n EXCEPT !.tabs[n.sel].loaded = TRUE])
         IN  [n1 EXCEPT !.err = IF outcome = "late" THEN "IndexError"
                                                    ELSE "none"]

\* mainApplication.updateScale, as far as the notebook goes: the last tab
\* is enabled again
updateScale(n) ==
    IF n.tabs[n.sel].loaded /\ n.tabs[Len(n.tabs)].state # "normal"
    THEN [n EXCEPT !.tabs[Len(n.tabs)].state = "normal"]
    ELSE n

Clear(n) == [n EXCEPT !.err = "none"]

\* the load button of the selected tab
LoadProject ==
    /\ nb.sel # 0
    /\ nb.nextId <= MaxTabId
    /\ \E outcome \in LoadOutcomes : nb' = load(Clear(nb), outcome)
    /\ UNCHANGED <<genVars, viewVars, calcVars, cw>>

\* the delete button
DelTab ==
    /\ nb' = delTab(Clear(nb))
    /\ UNCHANGED <<genVars, viewVars, calcVars, cw>>

\* the callback of a scale
UpdateScale ==
    /\ nb.sel # 0
    /\ nb' = updateScale(Clear(nb))
    /\ UNCHANGED <<genVars, viewVars, calcVars, cw>>

\* a click on a tab that is not disabled
SelectTab ==
    /\ \E i \in 1..Len(nb.tabs) :
            /\ nb.tabs[i].state = "normal"
            /\ nb' = [Clear(nb) EXCEPT !.sel = i]
    /\ UNCHANGED <<genVars, viewVars, calcVars, cw>>

\* mainApplication.showPlotWindow
ShowPlotWindow ==
    /\ nb.sel # 0
    /\ nb' = [Clear(nb) EXCEPT !.plotWindow = TRUE]
    /\ UNCHANGED <<genVars, viewVars, calcVars, cw>>

(***************************************************************************)
(* Specification of the two windows                                        *)
(***************************************************************************)
InitUi ==
    /\ args = DefaultArgs(180)
    /\ pc = "new"
    /\ configErr = "none"
    /\ run = NoRun
    /\ threads = <<>>
    /\ joined = 0
    /\ manifest = <<>>
    /\ manifestWrites = <<>>
    /\ tiles = EmptyDict
    /\ lateWrites = {}
    /\ cancels = 0
    /\ cancelEarly = FALSE
    /\ disk = <<>>
    /\ tab = NoTab
    /\ loadErr = "none"
    /\ calc = NoCalc
    /\ nb = NewNotebook
    /\ cw \in {NewConfigWindow(cpu) : cpu \in CpuCounts}

NextUi ==
    \/ PressMinus
    \/ PressPlus
    \/ TypeThread
    \/ LoadProject
    \/ DelTab
    \/ UpdateScale
    \/ SelectTab
    \/ ShowPlotWindow

SpecUi == InitUi /\ [][NextUi]_vars

(***************************************************************************)
(* Properties of the two windows (SpecUi)                                  *)
(***************************************************************************)
\* C30: whenever the entry is not empty, the thread count lies in
\* 1..cpuCount, '-' is disabled exactly when the count is 1 and '+' is
\* disabled exactly when the count is cpuCount
C30_ThreadControl ==
    (cw.cpu # <<>> /\ cw.text # <<>>) =>
        /\ cw.text[1] \in 1..cw.cpu[1]
        /\ (cw.minState = "disabled") <=> (cw.text[1] = 1)
        /\ (cw.maxState = "disabled") <=> (cw.text[1] = cw.cpu[1])

\* the positions of the notebook tabs that are not loaded
Unloaded == {i \in 1..Len(nb.tabs) : ~nb.tabs[i].loaded}

\* C29: at start-up and after any loads (successful or failed), tab
\* selections and deletions, exactly one notebook tab is not loaded and it
\* is the last one, self.tabs has exactly one entry per notebook tab, and
\* every tab delTab has removed was loaded
C29_TabBookkeeping ==
    /\ Unloaded = {Len(nb.tabs)}
    /\ nb.keys = {nb.tabs[i].id : i \in 1..Len(nb.tabs)}
    /\ Cardinality(nb.keys) = Len(nb.tabs)
    /\ \A t \in nb.removed : t.loaded

\* three tabs are open after a tab has been deleted and the last load
\* raised after the tab was added
C29_Witness ==
    /\ Len(nb.tabs) >= 3
    /\ nb.removed # {}
    /\ nb.err = "IndexError"

====
